---------------------------- MODULE Spec2Model ----------------------------
(***************************************************************************)
(* SmartMedicare: the Express route handlers of app.js over the four       *)
(* mongoose collections (User, Patient, Medicine, Prescription) and the    *)
(* passport session identity of config/passport.js.                        *)
(*                                                                         *)
(* Every handler is one action on the database it reads, except           *)
(* GET /doctor/dashboard, whose three database round trips (findById,      *)
(* save, find) are three steps, so that two dashboard requests can         *)
(* interleave at their await points.                                       *)
(* ObjectIds are numbers; a path parameter is the sequence of its          *)
(* characters, and String(oid) / the cast of a parameter to an ObjectId    *)
(* are computed on the characters.                                         *)
(***************************************************************************)
EXTENDS Integers, Sequences, FiniteSets, TLC

VARIABLES
    users,          \* User collection, in insertion order
    patients,       \* Patient collection, in insertion order
    medicines,      \* Medicine collection: a set of documents
    nextMed,        \* number of Medicine ids handed out so far
    prescriptions,  \* Prescription collection, in insertion order
    session,        \* per browser session: the serialized user id, or NoId
    dash,           \* per browser session: position of its dashboard request
    resp            \* the last request handled and its response

vars == <<users, patients, medicines, nextMed, prescriptions, session, dash, resp>>
db == <<users, patients, medicines, nextMed, prescriptions>>

---------------------------------------------------------------------------
(* Bounds of the model *)

MaxMeds == 2
MaxPresc == 1

Sessions == {"s1", "s2"}
Emails == {"a@x", "b@x", "c@x"}
Passwords == {"pw1", "pw2"}
Roles == {"doctor", "patient", "nurse"}
Names == {"Asha"}
PatientCodes == {"PAT-1", "PAT-2"}
\* patientCode is unique, so the Patient collection never outgrows the codes
MaxPatients == Cardinality(PatientCodes)

---------------------------------------------------------------------------
(* ObjectIds and their text *)

NoId == 0

\* The ids of one collection are consecutive from a base of its own, so that
\* no two documents of any collections share an id.
POid(k) == 16 + k
UOid(k) == 32 + k
MOid(k) == 48 + k
ROid(k) == 64 + k

HexDigits == <<"0", "1", "2", "3", "4", "5", "6", "7", "8", "9",
               "a", "b", "c", "d", "e", "f">>
HexChars == {HexDigits[i] : i \in 1..16} \cup {"A", "B", "C", "D", "E", "F"}

\* The value of each hex digit, in either case.
HexTable ==
    [c \in HexChars |->
        IF c \in {"A", "a"} THEN 10
        ELSE IF c \in {"B", "b"} THEN 11
        ELSE IF c \in {"C", "c"} THEN 12
        ELSE IF c \in {"D", "d"} THEN 13
        ELSE IF c \in {"E", "e"} THEN 14
        ELSE IF c \in {"F", "f"} THEN 15
        ELSE CHOOSE v \in 0..9 : HexDigits[v + 1] = c]

HexVal(c) == HexTable[c]

\* String(oid): 24 lower-case hex digits.
OidString(oid) ==
    [i \in 1..24 |->
        IF i = 24 THEN HexDigits[(oid % 16) + 1]
        ELSE IF i = 23 THEN HexDigits[((oid \div 16) % 16) + 1]
        ELSE IF i = 22 THEN HexDigits[((oid \div 256) % 16) + 1]
        ELSE "0"]

IsValidMutAnyLength(s) == \A i \in 1..Len(s) : s[i] \in HexChars

\* mongoose.Types.ObjectId.isValid on a string: 24 hex digits. (Strings of
\* 12 characters, which some versions of the library also accept, are not
\* among the path parameters drawn below.)
IsValid(s) == Len(s) = 24 /\ \A i \in 1..24 : s[i] \in HexChars

RECURSIVE ParseHex(_, _, _)
ParseHex(s, i, acc) ==
    IF i > Len(s) THEN acc ELSE ParseHex(s, i + 1, 16 * acc + HexVal(s[i]))

\* The cast of a path parameter to an ObjectId (findById, a ref path).
CastOid(s) == ParseHex(s, 1, 0)

StrUndefined == <<"u", "n", "d", "e", "f", "i", "n", "e", "d">>
StrShort == <<"4", "2">>
StrNotHex == [i \in 1..24 |-> IF i = 1 THEN "z" ELSE "0"]

PatientPathIds ==
    {OidString(POid(k)) : k \in 1..(MaxPatients + 1)}
        \cup {StrUndefined, StrShort, StrNotHex}

MedicinePathIds ==
    {OidString(MOid(k)) : k \in 1..(MaxMeds + 1)} \cup {StrShort}

---------------------------------------------------------------------------
(* The collections *)

\* models/User.js is not among the sources: the pre-save hash and
\* comparePassword are modelled from the specification (hashed at rest,
\* compared against the stored hash).
HashPassword(pw) == <<"hash", pw>>
ComparePassword(user, candidate) == user.password = HashPassword(candidate)
RoleEnum == {"doctor", "patient"}

UserIds == {UOid(i) : i \in 1..Len(users)}
UserById(id) == users[id - UOid(0)]
PatientIds == {POid(i) : i \in 1..Len(patients)}
PatientById(id) == patients[id - POid(0)]
MedicineIds == {m._id : m \in medicines}
MedicineById(id) == CHOOSE m \in medicines : m._id = id

FindUserByEmailMutNeverFound(email) == NoId

\* User.findOne({ email }): the id of the first match, NoId for null.
FindUserByEmail(email) ==
    IF \E i \in 1..Len(users) : users[i].email = email
    THEN UOid(CHOOSE i \in 1..Len(users) :
            /\ users[i].email = email
            /\ \A j \in 1..(i - 1) : users[j].email # email)
    ELSE NoId

FindPatientByCodeMutNeverFound(code) == NoId

\* Patient.findOne({ patientCode }): the id of the first match, NoId for null.
FindPatientByCode(code) ==
    IF \E i \in 1..Len(patients) : patients[i].patientCode = code
    THEN POid(CHOOSE i \in 1..Len(patients) :
            /\ patients[i].patientCode = code
            /\ \A j \in 1..(i - 1) : patients[j].patientCode # code)
    ELSE NoId

\* Patient.create({ name, patientCode }): no vitals, no medicines, no doctor.
NewPatient(name, code) ==
    [patientCode |-> code, name |-> name, medicines |-> {},
     vitals |-> [bp |-> <<>>, sugar |-> <<>>], assignedDoctor |-> NoId]

---------------------------------------------------------------------------
(* Responses *)

NoResp ==
    [route |-> "none", s |-> "none", user |-> NoId, role |-> "", id |-> <<>>,
     status |-> 0, body |-> "", flash |-> "", lookup |-> FALSE,
     patient |-> NoId, meds |-> {}, presc |-> <<>>,
     score |-> 0, risks |-> <<>>, suggestions |-> <<>>]

Redirect(route, target, flash) ==
    [NoResp EXCEPT !.route = route, !.status = 302, !.body = target,
                   !.flash = flash]

Send(route, status, text) ==
    [NoResp EXCEPT !.route = route, !.status = status, !.body = text]

---------------------------------------------------------------------------
(* Session identity *)

SerializeUser(uid) == uid

\* passport.deserializeUser: User.findById(id); null leaves the request
\* unauthenticated.
DeserializeUser(id) == IF id \in UserIds THEN id ELSE NoId

ReqUser(s) == IF session[s] = NoId THEN NoId ELSE DeserializeUser(session[s])

\* isAuth: req.isAuthenticated()
IsAuth(s) == ReqUser(s) # NoId

VerifyMutNoPasswordCheck(email, password) ==
    LET uid == FindUserByEmail(email) IN
    IF uid = NoId THEN [user |-> NoId, message |-> "Email not registered"]
    ELSE [user |-> uid, message |-> ""]

\* The LocalStrategy verify callback: the user id, or NoId with a message.
Verify(email, password) ==
    LET uid == FindUserByEmail(email) IN
    IF uid = NoId THEN [user |-> NoId, message |-> "Email not registered"]
    ELSE IF ~ComparePassword(UserById(uid), password)
         THEN [user |-> NoId, message |-> "Incorrect password"]
         ELSE [user |-> uid, message |-> ""]

---------------------------------------------------------------------------
(* POST /signup *)

Signup(email, password, role, name, patientId) ==
    LET existingUser == FindUserByEmail(email)
        pid == FindPatientByCode(patientId)
        fail(msg) ==
            /\ resp' = [Redirect("POST /signup", "/signup", msg)
                            EXCEPT !.id = <<email, role, patientId>>]
            /\ UNCHANGED <<users, patients>>
        saveUser(p) ==
            \* user.save(): the role enum is validated, the password hashed
            IF role \in RoleEnum
            THEN /\ users' = Append(users,
                        [email |-> email, password |-> HashPassword(password),
                         role |-> role, patient |-> p])
                 /\ resp' = [Redirect("POST /signup", "/login", "")
                                EXCEPT !.id = <<email, role, patientId>>]
            ELSE /\ users' = users
                 /\ resp' = [Redirect("POST /signup", "/signup", "Signup failed")
                                EXCEPT !.id = <<email, role, patientId>>]
    IN  /\ IF existingUser # NoId THEN fail("Email already registered")
           ELSE IF role = "patient"
           THEN IF pid # NoId THEN fail("Patient ID already exists")
                ELSE /\ patients' = Append(patients, NewPatient(name, patientId))
                     /\ saveUser(POid(Len(patients) + 1))
           ELSE IF pid = NoId THEN fail("Patient ID not found")
                ELSE /\ patients' = patients
                     /\ saveUser(pid)
        /\ UNCHANGED <<medicines, nextMed, prescriptions, session, dash>>

---------------------------------------------------------------------------
(* POST /login, GET /logout *)

Login(s, email, password) ==
    LET v == Verify(email, password) IN
    /\ IF v.user = NoId
       THEN /\ session' = session
            /\ resp' = [Redirect("POST /login", "/login", v.message)
                            EXCEPT !.s = s, !.id = <<email, password>>]
       ELSE /\ session' = [session EXCEPT ![s] = SerializeUser(v.user)]
            /\ resp' = [Redirect("POST /login",
                            IF UserById(v.user).role = "doctor"
                            THEN "/doctor/dashboard"
                            ELSE IF UserById(v.user).role = "patient"
                            THEN "/patient/:patient" ELSE "/dashboard", "")
                            EXCEPT !.s = s, !.user = v.user,
                                   !.id = <<email, password>>,
                                   !.patient = UserById(v.user).patient]
    /\ UNCHANGED <<db, dash>>

Logout(s) ==
    /\ session' = [session EXCEPT ![s] = NoId]
    /\ resp' = [Redirect("GET /logout", "/", "") EXCEPT !.s = s]
    /\ UNCHANGED <<db, dash>>

---------------------------------------------------------------------------
(* GET /dashboard *)

GetDashboard(s) ==
    /\ IF ~IsAuth(s)
       THEN resp' = [Redirect("GET /dashboard", "/login", "") EXCEPT !.s = s]
       ELSE resp' = [Send("GET /dashboard", 200, "dashboard")
                        EXCEPT !.s = s, !.user = ReqUser(s),
                               !.role = UserById(ReqUser(s)).role,
                               !.patient = UserById(ReqUser(s)).patient]
    /\ UNCHANGED <<db, session, dash>>

---------------------------------------------------------------------------
(* The guards isAuth and isDoctor, as the response they end a request with *)

\* isDoctor: req.user && req.user.role === 'doctor'
IsDoctor(s) == ReqUser(s) # NoId /\ UserById(ReqUser(s)).role = "doctor"

\* The request stamped on a response: route, session, identity, parameter.
Stamp(r, route, s, id) ==
    [r EXCEPT !.route = route, !.s = s, !.user = ReqUser(s), !.id = id]

Denied(route, s, id) ==
    IF ~IsAuth(s) THEN Stamp(Redirect(route, "/login", ""), route, s, id)
    ELSE Stamp(Send(route, 403, "Access Denied: Doctors only"), route, s, id)

---------------------------------------------------------------------------
(* GET /patient/:id *)

GetPatient(s, id) ==
    LET route == "GET /patient/:id" IN
    /\ resp' =
        IF ~IsAuth(s) THEN Denied(route, s, id)
        ELSE IF id = <<>> \/ id = StrUndefined
        THEN Stamp(Redirect(route, "/dashboard", ""), route, s, id)
        ELSE IF ~IsValid(id)
        THEN Stamp(Send(route, 400, "Invalid patient ID"), route, s, id)
        ELSE IF CastOid(id) \notin PatientIds
        THEN [Stamp(Send(route, 404, "Patient not found"), route, s, id)
                EXCEPT !.lookup = TRUE]
        ELSE [Stamp(Send(route, 200, "patientView"), route, s, id)
                EXCEPT !.lookup = TRUE, !.patient = CastOid(id)]
    /\ UNCHANGED <<db, session, dash>>

---------------------------------------------------------------------------
(* GET /doctor/dashboard: findById, then save, then find and render *)

Idle == [pc |-> "idle"]

Pending(route, s) == Stamp(NoResp, route, s, <<>>)

DashboardStart(s) ==
    LET route == "GET /doctor/dashboard"
        uid == ReqUser(s)
        patientId == UserById(uid).patient
    IN  /\ dash[s].pc = "idle"
        /\ IF ~IsAuth(s) \/ ~IsDoctor(s)
           THEN /\ resp' = Denied(route, s, <<>>)
                /\ dash' = dash
           ELSE IF patientId \notin PatientIds
           THEN /\ resp' = Stamp(Send(route, 404, "Patient not found"),
                                 route, s, <<>>)
                /\ dash' = dash
           ELSE /\ resp' = Pending(route, s)
                /\ dash' = [dash EXCEPT ![s] =
                        [pc |-> "loaded", user |-> uid, patient |-> patientId,
                         doc |-> PatientById(patientId)]]
        /\ UNCHANGED <<db, session>>

\* if (!patient.assignedDoctor) { patient.assignedDoctor = req.user._id;
\* await patient.save() }: the save writes the one modified path.
DashboardAssign(s) ==
    /\ dash[s].pc = "loaded"
    /\ dash[s].doc.assignedDoctor = NoId
    /\ patients' = [patients EXCEPT
            ![dash[s].patient - POid(0)].assignedDoctor = dash[s].user]
    /\ dash' = [dash EXCEPT ![s].pc = "saved",
                            ![s].doc.assignedDoctor = dash[s].user]
    /\ resp' = [Pending("GET /doctor/dashboard", s)
                    EXCEPT !.user = dash[s].user]
    /\ UNCHANGED <<users, medicines, nextMed, prescriptions, session>>

\* Medicine.find({ _id: { $in: patient.medicines } })
DashboardMedicines(doc, pid) == {m \in medicines : m._id \in doc.medicines}

DashboardRender(s) ==
    /\ \/ dash[s].pc = "saved"
       \/ dash[s].pc = "loaded" /\ dash[s].doc.assignedDoctor # NoId
    /\ resp' = [Send("GET /doctor/dashboard", 200, "doctorView")
                    EXCEPT !.s = s, !.user = dash[s].user,
                           !.patient = dash[s].patient,
                           !.meds = DashboardMedicines(dash[s].doc,
                                                       dash[s].patient)]
    /\ dash' = [dash EXCEPT ![s] = Idle]
    /\ UNCHANGED <<db, session>>

---------------------------------------------------------------------------
(* Medicine list views *)

MedicinesOf(pid) == {m \in medicines : m.patient = pid}

\* GET /patient/:id/medicines: no try/catch, a failed cast or a null patient
\* rejects the handler's promise and the handler sends nothing.
ListMedicinesPatient(s, id) ==
    LET route == "GET /patient/:id/medicines" IN
    /\ resp' =
        IF ~IsAuth(s) THEN Denied(route, s, id)
        ELSE IF ~IsValid(id) \/ CastOid(id) \notin PatientIds
        THEN [Stamp(Send(route, 0, "unhandled rejection"), route, s, id)
                EXCEPT !.lookup = IsValid(id)]
        ELSE [Stamp(Send(route, 200, "medicineView"), route, s, id)
                EXCEPT !.lookup = TRUE, !.patient = CastOid(id),
                       !.meds = MedicinesOf(CastOid(id))]
    /\ UNCHANGED <<db, session, dash>>

\* GET /doctor/patient/:id/medicines
ListMedicinesDoctor(s, id) ==
    LET route == "GET /doctor/patient/:id/medicines" IN
    /\ resp' =
        IF ~IsAuth(s) \/ ~IsDoctor(s) THEN Denied(route, s, id)
        ELSE IF ~IsValid(id) \/ CastOid(id) \notin PatientIds
        THEN [Stamp(Send(route, 500, "Server Error"), route, s, id)
                EXCEPT !.lookup = IsValid(id)]
        ELSE [Stamp(Send(route, 200, "medicineView"), route, s, id)
                EXCEPT !.lookup = TRUE, !.patient = CastOid(id),
                       !.meds = MedicinesOf(CastOid(id))]
    /\ UNCHANGED <<db, session, dash>>

---------------------------------------------------------------------------
(* Medicine create, update, delete *)

MedForms ==
    {[name |-> "Metformin", dosesRemaining |-> 30,
      frequency |-> "twice a day", reason |-> "sugar"],
     [name |-> "Amlodipine", dosesRemaining |-> 10,
      frequency |-> "daily", reason |-> "bp"]}

NewMedicine(oid, form, pid) ==
    [_id |-> oid, name |-> form.name, dosesRemaining |-> form.dosesRemaining,
     frequency |-> form.frequency, reason |-> form.reason, patient |-> pid]

\* POST /doctor/patient/:id/medicines
CreateMedicine(s, id, form) ==
    LET route == "POST /doctor/patient/:id/medicines" IN
    /\ IF ~IsAuth(s) \/ ~IsDoctor(s)
       THEN /\ resp' = Denied(route, s, id)
            /\ UNCHANGED <<medicines, nextMed>>
       ELSE IF ~IsValid(id)
       THEN /\ resp' = Stamp(Send(route, 500, "Server Error"), route, s, id)
            /\ UNCHANGED <<medicines, nextMed>>
       ELSE /\ nextMed < MaxMeds
            /\ medicines' = medicines \cup
                    {NewMedicine(MOid(nextMed + 1), form, CastOid(id))}
            /\ nextMed' = nextMed + 1
            /\ resp' = [Stamp(Redirect(route,
                            "/doctor/patient/:id/medicines", ""), route, s, id)
                        EXCEPT !.patient = CastOid(id)]
    /\ UNCHANGED <<users, patients, prescriptions, session, dash>>

\* POST /doctor/medicine/:id/update
UpdateMedicine(s, id, form) ==
    LET route == "POST /doctor/medicine/:id/update" IN
    /\ IF ~IsAuth(s) \/ ~IsDoctor(s)
       THEN /\ resp' = Denied(route, s, id)
            /\ medicines' = medicines
       ELSE IF ~IsValid(id) \/ CastOid(id) \notin MedicineIds
       THEN /\ resp' = Stamp(Send(route, 500, "Failure to update Medicine"),
                             route, s, id)
            /\ medicines' = medicines
       ELSE LET med == MedicineById(CastOid(id)) IN
            /\ medicines' = (medicines \ {med}) \cup
                    {NewMedicine(med._id, form, med.patient)}
            /\ resp' = [Stamp(Redirect(route,
                            "/doctor/patient/${req.params.id}/medicines", ""),
                            route, s, id)
                        EXCEPT !.patient = med.patient]
    /\ UNCHANGED <<users, patients, nextMed, prescriptions, session, dash>>

DeletedMutAll(oid) == {}

\* Medicine.findByIdAndDelete(oid): the collection without that document.
Deleted(oid) == {m \in medicines : m._id # oid}

\* POST /doctor/medicine/:id/delete
DeleteMedicine(s, id) ==
    LET route == "POST /doctor/medicine/:id/delete" IN
    /\ IF ~IsAuth(s) \/ ~IsDoctor(s)
       THEN /\ resp' = Denied(route, s, id)
            /\ medicines' = medicines
       ELSE IF ~IsValid(id)
       THEN /\ resp' = Stamp(Send(route, 500, " Failure to Delete medicines"),
                             route, s, id)
            /\ medicines' = medicines
       ELSE /\ medicines' = Deleted(CastOid(id))
            /\ resp' = [Stamp(Redirect(route,
                            "/doctor/patient/${req.params.id}/medicines", ""),
                            route, s, id)
                        EXCEPT !.patient =
                            IF CastOid(id) \in MedicineIds
                            THEN MedicineById(CastOid(id)).patient ELSE NoId]
    /\ UNCHANGED <<users, patients, nextMed, prescriptions, session, dash>>

---------------------------------------------------------------------------
(* Prescriptions *)

RxForms ==
    {[medicines |-> <<[name |-> "Metformin", dosage |-> 500, days |-> 30]>>,
      notes |-> "after meals"]}

\* Prescription.find({ patient }).sort({ date: -1 }): the ids of the
\* patient's prescriptions, newest (last inserted) first.
RECURSIVE PrescriptionsOf(_, _)
PrescriptionsOf(pid, n) ==
    IF n = 0 THEN <<>>
    ELSE IF prescriptions[n].patient = pid
         THEN <<ROid(n)>> \o PrescriptionsOf(pid, n - 1)
         ELSE PrescriptionsOf(pid, n - 1)

OwnsMutAlways(uid, pid) == TRUE

\* String(req.user.patient) === String(patient._id)
Owns(uid, pid) == OidString(UserById(uid).patient) = OidString(pid)

\* GET /doctor/patient/:id/prescriptions
GetPrescriptions(s, id) ==
    LET route == "GET /doctor/patient/:id/prescriptions" IN
    /\ resp' =
        IF ~IsAuth(s) \/ ~IsDoctor(s) THEN Denied(route, s, id)
        ELSE IF ~IsValid(id)
        THEN Stamp(Send(route, 200, "InValid patient Id"), route, s, id)
        ELSE IF CastOid(id) \notin PatientIds
        THEN [Stamp(Send(route, 200, "Patient not found"), route, s, id)
                EXCEPT !.lookup = TRUE]
        ELSE IF ~Owns(ReqUser(s), CastOid(id))
        THEN [Stamp(Send(route, 200, "Unauthorized"), route, s, id)
                EXCEPT !.lookup = TRUE]
        ELSE [Stamp(Send(route, 200, "doctorPrescriptions"), route, s, id)
                EXCEPT !.lookup = TRUE, !.patient = CastOid(id),
                       !.presc = PrescriptionsOf(CastOid(id),
                                                 Len(prescriptions))]
    /\ UNCHANGED <<db, session, dash>>

\* POST /doctor/patient/:id/prescriptions
CreatePrescription(s, id, form) ==
    LET route == "POST /doctor/patient/:id/prescriptions" IN
    /\ IF ~IsAuth(s) \/ ~IsDoctor(s)
       THEN /\ resp' = Denied(route, s, id)
            /\ prescriptions' = prescriptions
       ELSE IF ~IsValid(id)
       THEN /\ resp' = Stamp(Send(route, 500, "Failed to save Prescription"),
                             route, s, id)
            /\ prescriptions' = prescriptions
       ELSE /\ Len(prescriptions) < MaxPresc
            /\ prescriptions' = Append(prescriptions,
                    [patient |-> CastOid(id), doctor |-> ReqUser(s),
                     medicines |-> form.medicines, notes |-> form.notes])
            /\ resp' = [Stamp(Redirect(route,
                            "/doctor/patient/:id/prescriptions", ""),
                            route, s, id)
                        EXCEPT !.patient = CastOid(id)]
    /\ UNCHANGED <<users, patients, medicines, nextMed, session, dash>>

---------------------------------------------------------------------------
(* GET /doctor/patient/:id/ai-insights *)

Digits == {HexDigits[i] : i \in 1..10}
WhiteSpace == {" "}

\* String.prototype.includes
Includes(hay, needle) ==
    \E i \in 1..(Len(hay) - Len(needle) + 1) :
        SubSeq(hay, i, i + Len(needle) - 1) = needle

RECURSIVE SkipSpace(_)
SkipSpace(s) ==
    IF s # <<>> /\ Head(s) \in WhiteSpace THEN SkipSpace(Tail(s)) ELSE s

RECURSIVE ReadDigits(_, _, _, _)
ReadDigits(s, radix, acc, seen) ==
    IF s # <<>> /\ Head(s) \in (IF radix = 16 THEN HexChars ELSE Digits)
    THEN ReadDigits(Tail(s), radix, radix * acc + HexVal(Head(s)), TRUE)
    ELSE [nan |-> ~seen, val |-> acc]

\* parseInt(text): leading white space, a sign, a 0x prefix, then the longest
\* run of digits; NaN when there is none.
ParseInt(text) ==
    LET t == SkipSpace(text)
        neg == t # <<>> /\ Head(t) = "-"
        u == IF t # <<>> /\ Head(t) \in {"-", "+"} THEN Tail(t) ELSE t
        hex == Len(u) >= 2 /\ u[1] = "0" /\ u[2] \in {"x", "X"}
        r == IF hex THEN ReadDigits(Tail(Tail(u)), 16, 0, FALSE)
             ELSE ReadDigits(u, 10, 0, FALSE)
    IN  [nan |-> r.nan, val |-> IF neg THEN 0 - r.val ELSE r.val]

Str140 == <<"1", "4", "0">>
Str150 == <<"1", "5", "0">>
Str0 == <<"0">>

SugarThreshold == 140
DependencyThresholdMutOff == 3 + 1
DependencyThreshold == 3
LifestyleScore == 80

\* The scoring of lines 396 to 427, statement by statement.
Insights(vitals, nPrescriptions) ==
    LET bp == vitals.bp     \* vitals?.bp || "": an absent bp is the empty text
        sugar == ParseInt(IF vitals.sugar = <<>> THEN Str0 ELSE vitals.sugar)
        highBp == Includes(bp, Str140) \/ Includes(bp, Str150)
        risks1 == IF highBp THEN <<"High Blood Pressure">> ELSE <<>>
        score1 == IF highBp THEN 100 - 20 ELSE 100
        highSugar == ~sugar.nan /\ sugar.val > SugarThreshold
        risks2 == IF highSugar THEN Append(risks1, "High Blood Sugar")
                  ELSE risks1
        score2 == IF highSugar THEN score1 - 20 ELSE score1
        many == nPrescriptions > DependencyThreshold
        risks3 == IF many
                  THEN Append(risks2, "Long-term medication dependency")
                  ELSE risks2
        score == IF many THEN score2 - 10 ELSE score2
        risks == IF Len(risks3) = 0 THEN <<"No major risks detected">>
                 ELSE risks3
        has(r) == \E i \in 1..Len(risks) : risks[i] = r
        sugg1 == IF score < LifestyleScore
                 THEN <<"Lifestyle improvement recommended">> ELSE <<>>
        sugg2 == IF has("High Blood Pressure")
                 THEN Append(sugg1, "Reduce salt intake") ELSE sugg1
        sugg3 == IF has("High Blood Sugar")
                 THEN Append(sugg2, "Avoid sugar and carbs") ELSE sugg2
        suggestions == IF Len(sugg3) = 0
                       THEN <<"Keep following current treatment">> ELSE sugg3
    IN  [score |-> score, risks |-> risks, suggestions |-> suggestions]

AIInsights(s, id) ==
    LET route == "GET /doctor/patient/:id/ai-insights" IN
    /\ resp' =
        IF ~IsAuth(s) \/ ~IsDoctor(s) THEN Denied(route, s, id)
        ELSE IF ~IsValid(id)
        THEN Stamp(Send(route, 500, "AI analysis failed"), route, s, id)
        ELSE IF CastOid(id) \notin PatientIds
        THEN [Stamp(Send(route, 200, "Patient not found"), route, s, id)
                EXCEPT !.lookup = TRUE]
        ELSE IF ~Owns(ReqUser(s), CastOid(id))
        THEN [Stamp(Send(route, 200, "Unauthorized"), route, s, id)
                EXCEPT !.lookup = TRUE]
        ELSE LET ps == PrescriptionsOf(CastOid(id), Len(prescriptions))
                 out == Insights(PatientById(CastOid(id)).vitals, Len(ps))
             IN  [Stamp(Send(route, 200, "aiInsights"), route, s, id)
                    EXCEPT !.lookup = TRUE, !.patient = CastOid(id),
                           !.score = out.score, !.risks = out.risks,
                           !.suggestions = out.suggestions]
    /\ UNCHANGED <<db, session, dash>>

---------------------------------------------------------------------------
(* Signup and login, from the empty database *)

Init ==
    /\ users = <<>>
    /\ patients = <<>>
    /\ medicines = {}
    /\ nextMed = 0
    /\ prescriptions = <<>>
    /\ session = [s \in Sessions |-> NoId]
    /\ dash = [s \in Sessions |-> Idle]
    /\ resp = NoResp

DoSignup ==
    \E email \in Emails, password \in Passwords, role \in Roles,
       name \in Names, patientId \in PatientCodes :
        Signup(email, password, role, name, patientId)

AuthSessions == {"s1"}

DoLogin == \E s \in AuthSessions, email \in Emails, password \in Passwords :
    Login(s, email, password)

DoLogout == \E s \in AuthSessions : Logout(s)

DoGetDashboard == \E s \in AuthSessions : GetDashboard(s)

Next == DoSignup \/ DoLogin \/ DoLogout \/ DoGetDashboard

Spec == Init /\ [][Next]_vars

---------------------------------------------------------------------------
(* The clinic: the database after four signups                             *)
(*   patient a@x with PAT-1, patient b@x with PAT-2,                       *)
(*   doctor c@x for PAT-1, doctor d@x for PAT-1,                           *)
(* which is where every doctor request starts from. Each specification     *)
(* below issues the requests of one group of handlers next to login and    *)
(* logout; the requests left out of a group write nothing it reads.        *)

SeedSignups ==
    <<[email |-> "a@x", password |-> "pw1", role |-> "patient",
       name |-> "Asha", patientId |-> "PAT-1"],
      [email |-> "b@x", password |-> "pw1", role |-> "patient",
       name |-> "Asha", patientId |-> "PAT-2"],
      [email |-> "c@x", password |-> "pw1", role |-> "doctor",
       name |-> "Asha", patientId |-> "PAT-1"],
      [email |-> "d@x", password |-> "pw2", role |-> "doctor",
       name |-> "Asha", patientId |-> "PAT-1"]>>

SeedPatients ==
    <<NewPatient("Asha", "PAT-1"), NewPatient("Asha", "PAT-2")>>

SeedUsers ==
    [i \in 1..4 |->
        [email |-> SeedSignups[i].email,
         password |-> HashPassword(SeedSignups[i].password),
         role |-> SeedSignups[i].role,
         patient |-> IF i = 2 THEN POid(2) ELSE POid(1)]]

SeedEmails == {SeedSignups[i].email : i \in 1..4}

\* The four signups themselves, from the empty database: SeedReached is
\* reachable under SpecSeed.
DoSeedSignup ==
    \E i \in 1..4 :
        Signup(SeedSignups[i].email, SeedSignups[i].password,
               SeedSignups[i].role, SeedSignups[i].name,
               SeedSignups[i].patientId)

SpecSeed == Init /\ [][DoSeedSignup]_vars

SeedReached == users = SeedUsers /\ patients = SeedPatients

InitClinic ==
    /\ users = SeedUsers
    /\ patients = SeedPatients
    /\ medicines = {}
    /\ nextMed = 0
    /\ prescriptions = <<>>
    /\ session = [s \in Sessions |-> NoId]
    /\ dash = [s \in Sessions |-> Idle]
    /\ resp = NoResp

ClinicSessions == {"s1"}

DoClinicLogin ==
    \E s \in ClinicSessions, email \in SeedEmails, password \in Passwords :
        Login(s, email, password)

DoClinicLogout == \E s \in ClinicSessions : Logout(s)

DoGetPatient ==
    \E s \in ClinicSessions, id \in PatientPathIds : GetPatient(s, id)

DoGetPrescriptions ==
    \E s \in ClinicSessions, id \in PatientPathIds : GetPrescriptions(s, id)

DoCreatePrescription ==
    \E s \in ClinicSessions, id \in PatientPathIds, form \in RxForms :
        CreatePrescription(s, id, form)

DoAIInsights ==
    \E s \in ClinicSessions, id \in PatientPathIds : AIInsights(s, id)

DoListMedicinesPatient ==
    \E s \in ClinicSessions, id \in PatientPathIds :
        ListMedicinesPatient(s, id)

DoListMedicinesDoctor ==
    \E s \in ClinicSessions, id \in PatientPathIds :
        ListMedicinesDoctor(s, id)

DoCreateMedicine ==
    \E s \in ClinicSessions, id \in PatientPathIds, form \in MedForms :
        CreateMedicine(s, id, form)

DoUpdateMedicine ==
    \E s \in ClinicSessions, id \in MedicinePathIds, form \in MedForms :
        UpdateMedicine(s, id, form)

DoDeleteMedicine ==
    \E s \in ClinicSessions, id \in MedicinePathIds : DeleteMedicine(s, id)

\* The patient views and the ownership-checked doctor views.
NextViews ==
    \/ DoClinicLogin
    \/ DoClinicLogout
    \/ DoCreatePrescription
    \/ DoGetPatient
    \/ DoGetPrescriptions
    \/ DoAIInsights

SpecViews == InitClinic /\ [][NextViews]_vars

\* Medicine create, update, delete and the two medicine lists.
NextMedicines ==
    \/ DoClinicLogin
    \/ DoClinicLogout
    \/ DoCreateMedicine
    \/ DoUpdateMedicine
    \/ DoDeleteMedicine
    \/ DoListMedicinesPatient
    \/ DoListMedicinesDoctor

SpecMedicines == InitClinic /\ [][NextMedicines]_vars

\* Everything a doctor can write: medicines and prescriptions.
NextDoctorActs ==
    \/ DoClinicLogin
    \/ DoClinicLogout
    \/ DoCreateMedicine
    \/ DoUpdateMedicine
    \/ DoDeleteMedicine
    \/ DoCreatePrescription

SpecDoctorActs == InitClinic /\ [][NextDoctorActs]_vars

\* The doctor dashboard of one session next to the medicine writes.
DoDashboardStart == \E s \in ClinicSessions : DashboardStart(s)
DoDashboardAssign == \E s \in ClinicSessions : DashboardAssign(s)
DoDashboardRender == \E s \in ClinicSessions : DashboardRender(s)

NextDashboard ==
    \/ DoClinicLogin
    \/ DoClinicLogout
    \/ DoCreateMedicine
    \/ DoUpdateMedicine
    \/ DoDeleteMedicine
    \/ DoListMedicinesDoctor
    \/ DoDashboardStart
    \/ DoDashboardAssign
    \/ DoDashboardRender

SpecDashboard == InitClinic /\ [][NextDashboard]_vars

\* The doctor dashboards of two sessions, interleaved at their awaits.
DoLoginAny ==
    \E s \in Sessions, email \in SeedEmails, password \in Passwords :
        Login(s, email, password)
DoLogoutAny == \E s \in Sessions : Logout(s)
DoDashboardStartAny == \E s \in Sessions : DashboardStart(s)
DoDashboardAssignAny == \E s \in Sessions : DashboardAssign(s)
DoDashboardRenderAny == \E s \in Sessions : DashboardRender(s)

NextAssign ==
    \/ DoLoginAny
    \/ DoLogoutAny
    \/ DoDashboardStartAny
    \/ DoDashboardAssignAny
    \/ DoDashboardRenderAny

SpecAssign == InitClinic /\ [][NextAssign]_vars

---------------------------------------------------------------------------
(* The scoring on stored vitals: no handler writes vitals, so the vitals   *)
(* and the number of prescriptions of PAT-1 are drawn by the initial state *)

AiMaxPresc == 4

Chars(a, b, c, d, e, f) == SelectSeq(<<a, b, c, d, e, f>>, LAMBDA x : x # "")

BpSamples ==
    {<<>>,
     Chars("1", "2", "0", "/", "8", "0"),
     Chars("1", "5", "0", "/", "9", "0"),
     Chars("1", "4", "0", "/", "9", "0"),
     Chars("9", "0", "/", "1", "4", "0"),
     Chars("1", "4", "5", "/", "9", "5"),
     Chars("1", "5", "/", "0", "", ""),
     Chars("2", "1", "5", "0", "", "")}

SugarSamples ==
    {<<>>,
     Chars("9", "0", "", "", "", ""),
     Chars("1", "4", "0", "", "", ""),
     Chars("1", "4", "1", "", "", ""),
     Chars("1", "5", "0", "", "", ""),
     Chars(" ", "1", "5", "0", "", ""),
     Chars("1", "5", "0", "m", "g", ""),
     Chars("h", "i", "g", "h", "", ""),
     Chars("-", "2", "0", "0", "", ""),
     Chars("0", "x", "8", "d", "", ""),
     Chars("1", "e", "3", "", "", ""),
     Chars("2", "0", "0", ".", "5", "")}

InitAI ==
    \E bp \in BpSamples, sugar \in SugarSamples, n \in 0..AiMaxPresc :
        /\ users = SeedUsers
        /\ patients = [SeedPatients EXCEPT
                ![1].vitals = [bp |-> bp, sugar |-> sugar]]
        /\ medicines = {}
        /\ nextMed = 0
        /\ prescriptions =
                [i \in 1..n |->
                    [patient |-> POid(1), doctor |-> UOid(3),
                     medicines |-> (CHOOSE f \in RxForms : TRUE).medicines,
                     notes |-> (CHOOSE f \in RxForms : TRUE).notes]]
        /\ session = [s \in Sessions |-> NoId]
        /\ dash = [s \in Sessions |-> Idle]
        /\ resp = NoResp

NextAI == DoClinicLogin \/ DoClinicLogout \/ DoAIInsights

SpecAI == InitAI /\ [][NextAI]_vars

---------------------------------------------------------------------------
(* Claims on signup and login, checked under Spec *)

EmailStored(email) == \E i \in 1..Len(users) : users[i].email = email
CodeStored(code) == \E i \in 1..Len(patients) : patients[i].patientCode = code
PairStored(email, password) ==
    \E i \in 1..Len(users) :
        users[i].email = email /\ users[i].password = HashPassword(password)

\* C1: a POST /signup whose email is already stored on a User, whatever its
\* role and patientId, is answered with the flash 'Email already registered'
\* and a redirect to /signup, and leaves the Users (and the Patients) as
\* they were.
C1_DuplicateEmailRejected ==
    [][(resp'.route = "POST /signup" /\ EmailStored(resp'.id[1]))
        => /\ resp'.status = 302
           /\ resp'.body = "/signup"
           /\ resp'.flash = "Email already registered"
           /\ users' = users
           /\ patients' = patients]_vars

\* A duplicate-email signup was answered although its role and patientId
\* alone would have let it through.
C1_Witness ==
    /\ resp.route = "POST /signup"
    /\ resp.flash = "Email already registered"
    /\ EmailStored(resp.id[1])
    /\ resp.id[2] = "doctor"
    /\ CodeStored(resp.id[3])

\* C2: a POST /signup with an unused email fails with 'Patient ID already
\* exists' when role = patient and the patientId is some Patient's
\* patientCode, and with 'Patient ID not found' when role = doctor and no
\* Patient has that patientCode; both redirect to /signup and create neither
\* a User nor a Patient.
C2_PatientCodeChecks ==
    [][(resp'.route = "POST /signup" /\ ~EmailStored(resp'.id[1]))
        => /\ (resp'.id[2] = "patient" /\ CodeStored(resp'.id[3]))
                => /\ resp'.status = 302
                   /\ resp'.body = "/signup"
                   /\ resp'.flash = "Patient ID already exists"
                   /\ users' = users
                   /\ patients' = patients
           /\ (resp'.id[2] = "doctor" /\ ~CodeStored(resp'.id[3]))
                => /\ resp'.status = 302
                   /\ resp'.body = "/signup"
                   /\ resp'.flash = "Patient ID not found"
                   /\ users' = users
                   /\ patients' = patients]_vars

\* A patient-role signup with a fresh email was refused for its patientId.
C2_Witness ==
    /\ resp.route = "POST /signup"
    /\ resp.id[2] = "patient"
    /\ ~EmailStored(resp.id[1])
    /\ CodeStored(resp.id[3])
    /\ resp.flash = "Patient ID already exists"

\* C7: POST /login with a stored (email, password) pair puts that User's id
\* in the session; a later request of the session carries the role and the
\* patient reference stored for that User; a login whose pair is not stored
\* leaves the session as it was and redirects to /login.
C7_LoginIdentity ==
    [][/\ (resp'.route = "POST /login" /\ PairStored(resp'.id[1], resp'.id[2]))
            => \E i \in 1..Len(users) :
                /\ users[i].email = resp'.id[1]
                /\ session'[resp'.s] = UOid(i)
                /\ resp'.user = UOid(i)
                /\ resp'.body # "/login"
       /\ (resp'.route = "POST /login" /\ ~PairStored(resp'.id[1], resp'.id[2]))
            => /\ session' = session
               /\ resp'.body = "/login"
               /\ resp'.flash # ""
       /\ (resp'.route = "GET /dashboard" /\ session'[resp'.s] # NoId)
            => /\ resp'.status = 200
               /\ resp'.user = session'[resp'.s]
               /\ resp'.role = users'[resp'.user - UOid(0)].role
               /\ resp'.patient = users'[resp'.user - UOid(0)].patient]_vars

\* A doctor who logged in and then asked for a page got the stored identity.
C7_Witness ==
    /\ resp.route = "GET /dashboard"
    /\ resp.status = 200
    /\ resp.role = "doctor"
    /\ session[resp.s] = resp.user
    /\ Len(users) >= 2
---------------------------------------------------------------------------
(* Claims on the patient view and the ownership-checked doctor views,      *)
(* checked under SpecViews                                                 *)

RxRoute == "GET /doctor/patient/:id/prescriptions"
AiRoute == "GET /doctor/patient/:id/ai-insights"

\* The last request was a doctor's, to one of the two ownership-checked
\* views, for an id that is not the doctor's assigned patient.
MismatchedDoctorRequest ==
    /\ resp.route \in {RxRoute, AiRoute}
    /\ resp.user # NoId
    /\ UserById(resp.user).role = "doctor"
    /\ resp.id # OidString(UserById(resp.user).patient)

RendersNothing ==
    /\ resp.body \notin {"doctorPrescriptions", "aiInsights"}
    /\ resp.patient = NoId
    /\ resp.presc = <<>>
    /\ resp.score = 0
    /\ resp.risks = <<>>
    /\ resp.suggestions = <<>>

\* C3 as stated: every mismatched request is answered 'Unauthorized' and
\* renders nothing of the patient.
C3_Original ==
    MismatchedDoctorRequest => (resp.body = "Unauthorized" /\ RendersNothing)

\* C3 as amended: a mismatched request renders no prescriptions, score,
\* risks or suggestions, and it is answered 'Unauthorized' when the id is
\* that of a stored Patient; an id that is ill-formed or of no stored
\* Patient is answered before the ownership check ('InValid patient Id',
\* 'Patient not found', or 500 'AI analysis failed').
C3_MismatchRendersNothing ==
    MismatchedDoctorRequest =>
        /\ RendersNothing
        /\ IF IsValid(resp.id) /\ CastOid(resp.id) \in PatientIds
           THEN resp.body = "Unauthorized" /\ resp.status = 200
           ELSE resp.body \in {"InValid patient Id", "Patient not found",
                               "AI analysis failed"}

\* A doctor was refused the prescriptions of another patient who has some.
C3_Witness ==
    /\ MismatchedDoctorRequest
    /\ resp.route = RxRoute
    /\ resp.body = "Unauthorized"
    /\ PrescriptionsOf(CastOid(resp.id), Len(prescriptions)) # <<>>

\* A well-formed identifier, as the claim means it: 24 hexadecimal digits.
WellFormed(id) ==
    /\ Len(id) = 24
    /\ \A i \in 1..Len(id) :
        id[i] \in {"0", "1", "2", "3", "4", "5", "6", "7", "8", "9",
                   "a", "b", "c", "d", "e", "f",
                   "A", "B", "C", "D", "E", "F"}

IllFormedPatientRequest ==
    /\ resp.route = "GET /patient/:id"
    /\ resp.user # NoId
    /\ ~WellFormed(resp.id)

\* C4 as stated: an authenticated GET /patient/:id with an ill-formed id is
\* answered with a 400-class status and looks no Patient up.
C4_Original ==
    IllFormedPatientRequest =>
        (resp.status \in 400..499 /\ ~resp.lookup)

\* C4 as amended: an authenticated GET /patient/:id with an ill-formed id
\* looks no Patient up, and is answered 400 'Invalid patient ID' unless the
\* id is the text 'undefined', which is redirected to /dashboard.
C4_IllFormedIdNoLookup ==
    IllFormedPatientRequest =>
        /\ ~resp.lookup
        /\ IF resp.id = StrUndefined
           THEN resp.status = 302 /\ resp.body = "/dashboard"
           ELSE resp.status = 400 /\ resp.body = "Invalid patient ID"

\* An id of the right length with a character that is no hex digit was
\* answered 400.
C4_Witness ==
    /\ IllFormedPatientRequest
    /\ Len(resp.id) = 24
    /\ resp.status = 400
---------------------------------------------------------------------------
(* Claim on the scoring, checked under SpecAI *)

Ind(b) == IF b THEN 1 ELSE 0
Opt(b, text) == IF b THEN <<text>> ELSE <<>>
OrElse(list, text) == IF list = <<>> THEN <<text>> ELSE list

\* The algorithm as the claim words it, on the stored bp text, the stored
\* sugar text read as an integer (0 when it is absent or unreadable) and
\* the number of the patient's prescriptions.
Specified(bp, sugarText, count) ==
    LET parsed == ParseInt(sugarText)
        sugar == IF sugarText = <<>> \/ parsed.nan THEN 0 ELSE parsed.val
        B == Includes(bp, Str140) \/ Includes(bp, Str150)
        S == sugar > 140
        K == count > 3
        score == 100 - 20 * Ind(B) - 20 * Ind(S) - 10 * Ind(K)
    IN  [score |-> score,
         risks |-> OrElse(Opt(B, "High Blood Pressure")
                            \o Opt(S, "High Blood Sugar")
                            \o Opt(K, "Long-term medication dependency"),
                          "No major risks detected"),
         suggestions |-> OrElse(
                Opt(score < 80, "Lifestyle improvement recommended")
                    \o Opt(B, "Reduce salt intake")
                    \o Opt(S, "Avoid sugar and carbs"),
                "Keep following current treatment")]

CountOf(pid) ==
    Cardinality({i \in 1..Len(prescriptions) : prescriptions[i].patient = pid})

Rendered == [score |-> resp.score, risks |-> resp.risks,
             suggestions |-> resp.suggestions]

Bp150over90 == <<"1", "5", "0", "/", "9", "0">>
Bp120over80 == <<"1", "2", "0", "/", "8", "0">>
Sugar150 == <<"1", "5", "0">>
Sugar90 == <<"9", "0">>

InsightsAsSpecified ==
    (resp.route = AiRoute /\ resp.body = "aiInsights") =>
        LET v == PatientById(resp.patient).vitals
            n == CountOf(resp.patient)
        IN  /\ Rendered = Specified(v.bp, v.sugar, n)
            /\ (v.bp = Bp150over90 /\ v.sugar = Sugar150 /\ n = 4) =>
                    Rendered =
                        [score |-> 50,
                         risks |-> <<"High Blood Pressure", "High Blood Sugar",
                                     "Long-term medication dependency">>,
                         suggestions |->
                            <<"Lifestyle improvement recommended",
                              "Reduce salt intake", "Avoid sugar and carbs">>]
            /\ (v.bp = Bp120over80 /\ v.sugar = Sugar90 /\ n = 0) =>
                    Rendered =
                        [score |-> 100,
                         risks |-> <<"No major risks detected">>,
                         suggestions |->
                            <<"Keep following current treatment">>]

\* C5: whenever the AI-insights handler renders, the score, risks and
\* suggestions it renders are those of the specified algorithm on the
\* patient's stored bp, sugar and prescription count (with the two worked
\* examples), and the request leaves the database and the sessions as they
\* were.
C5_InsightsAsSpecified ==
    [][resp'.route = AiRoute
        => (InsightsAsSpecified' /\ db' = db /\ session' = session)]_vars

\* The first worked example was rendered: all three risks, score 50.
C5_Witness ==
    /\ resp.route = AiRoute
    /\ resp.body = "aiInsights"
    /\ PatientById(resp.patient).vitals.bp = Bp150over90
    /\ PatientById(resp.patient).vitals.sugar = Sugar150
    /\ CountOf(resp.patient) = 4
    /\ resp.score = 50
---------------------------------------------------------------------------
(* Claim on the medicine delete, checked under SpecMedicines *)

DeleteRoute == "POST /doctor/medicine/:id/delete"
ListRoutes == {"GET /patient/:id/medicines", "GET /doctor/patient/:id/medicines"}

\* Where a successful update or delete redirects to.
LiteralTarget == "/doctor/patient/${req.params.id}/medicines"

\* The step just taken was a doctor's delete of a stored Medicine.
DeletedSome ==
    /\ resp'.route = DeleteRoute
    /\ resp'.body = LiteralTarget
    /\ IsValid(resp'.id)
    /\ CastOid(resp'.id) \in MedicineIds

\* C6: a successful delete of a stored Medicine m removes m and nothing
\* else (every other Medicine, every Patient and every Prescription is as
\* before); an id that was handed out and is no longer stored is never
\* stored again, so that an update of it finds nothing; and each medicine
\* list view of a patient shows exactly the stored Medicines of that
\* patient, so m is not on it and every other Medicine of the patient is.
C6_DeleteRemovesOnlyThat ==
    [][/\ DeletedSome
            => /\ CastOid(resp'.id) \notin {m._id : m \in medicines'}
               /\ medicines' = medicines \ {MedicineById(CastOid(resp'.id))}
               /\ patients' = patients
               /\ prescriptions' = prescriptions
       /\ \A k \in 1..nextMed :
            MOid(k) \notin MedicineIds
                => /\ MOid(k) \notin {m._id : m \in medicines'}
                   /\ (resp'.route = "POST /doctor/medicine/:id/update"
                        /\ resp'.id = OidString(MOid(k)))
                            => (resp'.body # LiteralTarget
                                /\ medicines' = medicines)
       /\ (resp'.route \in ListRoutes /\ resp'.status = 200)
            => /\ resp'.patient \in PatientIds
               /\ resp'.meds = {m \in medicines' : m.patient = resp'.patient}]_vars

\* A stored Medicine was deleted and another Medicine of the same patient
\* is still stored.
C6_Witness ==
    /\ resp.route = DeleteRoute
    /\ resp.body = LiteralTarget
    /\ resp.patient \in PatientIds
    /\ CastOid(resp.id) \notin MedicineIds
    /\ \E m \in medicines : m.patient = resp.patient

---------------------------------------------------------------------------
(* Claim on who may write, checked under SpecDoctorActs *)

\* C8: every step that changes a Medicine or a Prescription of patient P
\* (a create for P, an update or delete of a Medicine owned by P) is a
\* request of an authenticated doctor-role User whose patient reference
\* is P.
C8_OnlyAssignedDoctorWrites ==
    [][(medicines' # medicines \/ prescriptions' # prescriptions)
        => /\ resp'.user \in UserIds
           /\ UserById(resp'.user).role = "doctor"
           /\ UserById(resp'.user).patient = resp'.patient]_vars

---------------------------------------------------------------------------
(* Claim on the auto-assignment, checked under SpecAssign *)

\* C9: once a patient's assignedDoctor is set it is never changed to
\* another doctor, and it is at all times unset or a doctor-role User
\* whose patient reference is that patient.
C9_AssignedDoctorStable ==
    [][\A i \in 1..Len(patients) :
        /\ patients[i].assignedDoctor # NoId
            => patients'[i].assignedDoctor = patients[i].assignedDoctor
        /\ \/ patients'[i].assignedDoctor = NoId
           \/ /\ patients'[i].assignedDoctor \in UserIds
              /\ UserById(patients'[i].assignedDoctor).role = "doctor"
              /\ UserById(patients'[i].assignedDoctor).patient = POid(i)]_vars

---------------------------------------------------------------------------
(* Claim on the dashboard's medicine list, checked under SpecDashboard *)

\* C10: the medicine list the doctor dashboard renders for the doctor's
\* patient P is the set of stored Medicines whose patient reference is P.
C10_DashboardListsPatientMedicines ==
    (resp.route = "GET /doctor/dashboard" /\ resp.status = 200)
        => resp.meds = MedicinesOf(resp.patient)
=============================================================================
